---- MODULE Spec2Model ----
(***************************************************************************)
(* A model of forecast-rs (src/src/lib.rs): the two request builders, the  *)
(* URL they compute at build(), and the serde codec of the request enums.  *)
(* Strings are TLA+ strings; a character is a string of length 1.          *)
(***************************************************************************)
EXTENDS Integers, Sequences, FiniteSets, TLC

\* ------------------------------------------------------------ constants

FORECAST_URL == "https://api.pirateweather.net/forecast"
EXCLUDE == "exclude"
EXTEND == "extend"
LANG == "lang"
UNITS == "units"

\* Option<T>
None == [some |-> FALSE]
Some(v) == [some |-> TRUE, val |-> v]

\* Result<T, E>
Ok(v) == [ok |-> TRUE, val |-> v]
Err(e) == [ok |-> FALSE, err |-> e]

\* ---------------------------------------------------------------- enums
\* Each enum is the sequence of its variants in declaration order, a
\* variant being <<Rust name, #[serde(rename)] token>>.

ExcludeBlock ==
    << <<"Currently", "currently">>,
       <<"Minutely", "minutely">>,
       <<"Hourly", "hourly">>,
       <<"Daily", "daily">>,
       <<"Alerts", "alerts">>,
       <<"Flags", "flags">> >>

ExtendBy ==
    << <<"Hourly", "hourly">> >>

Lang ==
    << <<"Arabic", "ar">>,
       <<"Azerbaijani", "az">>,
       <<"Belarusian", "be">>,
       <<"Bulgarian", "bg">>,
       <<"Bosnian", "bs">>,
       <<"Catalan", "ca">>,
       <<"Czech", "cz">>,
       <<"Danish", "da">>,
       <<"German", "de">>,
       <<"Greek", "el">>,
       <<"English", "en">>,
       <<"Spanish", "es">>,
       <<"Estonian", "et">>,
       <<"Finnish", "fi">>,
       <<"French", "fr">>,
       <<"Croatian", "hr">>,
       <<"Hungarian", "hu">>,
       <<"Indonesian", "id">>,
       <<"Icelandic", "is">>,
       <<"Italian", "it">>,
       <<"Japanese", "ja">>,
       <<"Georgian", "ka">>,
       <<"Korean", "ko">>,
       <<"Cornish", "kw">>,
       <<"NorwegianBokmal", "nb">>,
       <<"Dutch", "nl">>,
       <<"Polish", "pl">>,
       <<"Portuguese", "pt">>,
       <<"Romanian", "ro">>,
       <<"Russian", "ru">>,
       <<"Slovak", "sk">>,
       <<"Slovenian", "sl">>,
       <<"Serbian", "sr">>,
       <<"Swedish", "sv">>,
       <<"Tetum", "tet">>,
       <<"Turkish", "tr">>,
       <<"Ukranian", "uk">>,
       <<"IgpayAtinlay", "x-pig-latin">>,
       <<"SimplifiedChinese", "zh">>,
       <<"TraditionalChinese", "zh-tw">> >>

Units ==
    << <<"Auto", "auto">>,
       <<"CA", "ca">>,
       <<"UK", "uk2">>,
       <<"Imperial", "us">>,
       <<"SI", "si">> >>

Severity ==
    << <<"Advisory", "advisory">>,
       <<"Watch", "watch">>,
       <<"Warning", "warning">> >>

EnumNames == {"ExcludeBlock", "ExtendBy", "Lang", "Units", "Severity"}

EnumTable(enum) ==
    CASE enum = "ExcludeBlock" -> ExcludeBlock
      [] enum = "ExtendBy" -> ExtendBy
      [] enum = "Lang" -> Lang
      [] enum = "Units" -> Units
      [] enum = "Severity" -> Severity

Variants(enum) == {EnumTable(enum)[i][1] : i \in DOMAIN EnumTable(enum)}

Tokens(enum) == {EnumTable(enum)[i][2] : i \in DOMAIN EnumTable(enum)}

\* ---------------------------------------------------------------- codec

\* A faulty serializer: every variant written as the first variant's name.
DeriveSerializeFirst(table, v) == table[1][2]

\* #[derive(Serialize)] with #[serde(rename = ..)]: a unit variant is
\* written as the string of its renamed name.
DeriveSerialize(table, v) ==
    LET i == CHOOSE j \in DOMAIN table : table[j][1] = v
    IN table[i][2]

\* A faulty deserializer: a string that matches no name falls back to the
\* first variant.
DeriveDeserializeDefault(table, s) ==
    IF \E j \in DOMAIN table : table[j][2] = s
    THEN Ok(table[CHOOSE j \in DOMAIN table : table[j][2] = s][1])
    ELSE Ok(table[1][1])

\* #[derive(Deserialize)]: the string is matched against the renamed names;
\* anything else is serde's "unknown variant" error.
DeriveDeserialize(table, s) ==
    IF \E j \in DOMAIN table : table[j][2] = s
    THEN Ok(table[CHOOSE j \in DOMAIN table : table[j][2] = s][1])
    ELSE Err("unknown variant")

\* impl Serialize for Lang: delegates to the derived (remote) serializer.
LangSerialize(v) == DeriveSerialize(Lang, v)

\* A faulty Lang deserializer: the derived one alone, without the alias.
LangDeserializeNoAlias(value) == DeriveDeserialize(Lang, value)

\* impl Deserialize for Lang: "no" is NorwegianBokmal, everything else goes
\* to the derived (remote) deserializer.
LangDeserialize(value) ==
    IF value = "no"
    THEN Ok("NorwegianBokmal")
    ELSE DeriveDeserialize(Lang, value)

Serialize(enum, v) ==
    IF enum = "Lang" THEN LangSerialize(v) ELSE DeriveSerialize(EnumTable(enum), v)

Deserialize(enum, s) ==
    IF enum = "Lang" THEN LangDeserialize(s) ELSE DeriveDeserialize(EnumTable(enum), s)

\* serde_json::to_string of a unit variant: the token as a JSON string.
\* (No token holds a character JSON escapes.)
JsonToString(enum, v) == "\"" \o Serialize(enum, v) \o "\""

\* str::trim_matches('"'): drops every leading and trailing quote.
RECURSIVE TrimStartQuote(_)
TrimStartQuote(s) ==
    IF Len(s) > 0 /\ SubSeq(s, 1, 1) = "\""
    THEN TrimStartQuote(SubSeq(s, 2, Len(s)))
    ELSE s

RECURSIVE TrimEndQuote(_)
TrimEndQuote(s) ==
    IF Len(s) > 0 /\ SubSeq(s, Len(s), Len(s)) = "\""
    THEN TrimEndQuote(SubSeq(s, 1, Len(s) - 1))
    ELSE s

TrimMatchesQuote(s) == TrimEndQuote(TrimStartQuote(s))

\* The wire token a builder puts in the query:
\* serde_json::to_string(e).unwrap().trim_matches('"')
WireToken(enum, v) == TrimMatchesQuote(JsonToString(enum, v))

\* -------------------------------------------------------------- strings

\* The printable ASCII characters in code order, in two runs (a TLA+ string
\* cannot hold the grave accent, byte 96): bytes 32..95 and bytes 97..126.
AsciiLow ==
    " !\"#$%&'()*+,-./0123456789:;<=>?@ABCDEFGHIJKLMNOPQRSTUVWXYZ[\\]^_"

AsciiHigh == "abcdefghijklmnopqrstuvwxyz{|}~"

CharAt(s, i) == SubSeq(s, i, i)

CharsOf(s) == {CharAt(s, i) : i \in 1..Len(s)}

ByteOf(c) ==
    IF c \in CharsOf(AsciiLow)
    THEN 31 + (CHOOSE i \in 1..Len(AsciiLow) : CharAt(AsciiLow, i) = c)
    ELSE 96 + (CHOOSE i \in 1..Len(AsciiHigh) : CharAt(AsciiHigh, i) = c)

HexDigits == "0123456789ABCDEF"

\* percent_encoding::percent_encode_byte: "%XX", upper-case hex.
PercentEncodeByte(c) ==
    "%" \o CharAt(HexDigits, (ByteOf(c) \div 16) + 1) \o CharAt(HexDigits, (ByteOf(c) % 16) + 1)

DecimalDigits == "0123456789"

AsciiAlphanumeric ==
    CharsOf("0123456789ABCDEFGHIJKLMNOPQRSTUVWXYZabcdefghijklmnopqrstuvwxyz")

\* First index at or after `from` whose character is in `set`; Len(s) + 1
\* when there is none.
IndexOfAny(s, set, from) ==
    LET hits == {i \in from..Len(s) : CharAt(s, i) \in set}
    IN IF hits = {} THEN Len(s) + 1 ELSE CHOOSE i \in hits : \A j \in hits : i <= j

\* itertools::join(items, sep)
RECURSIVE Join(_, _)
Join(items, sep) ==
    IF Len(items) = 0 THEN ""
    ELSE IF Len(items) = 1 THEN items[1]
    ELSE items[1] \o sep \o Join(Tail(items), sep)

\* ------------------------------------------------------ number formatting

\* Decimal digits of a natural number, most significant first.
RECURSIVE DigitsOfNat(_)
DigitsOfNat(n) ==
    IF n < 10 THEN <<n>> ELSE Append(DigitsOfNat(n \div 10), n % 10)

RECURSIVE DigitsToString(_)
DigitsToString(ds) ==
    IF Len(ds) = 0 THEN ""
    ELSE IF Len(ds) = 1 THEN CharAt(DecimalDigits, ds[1] + 1)
    ELSE DigitsToString(SubSeq(ds, 1, Len(ds) \div 2))
         \o DigitsToString(SubSeq(ds, Len(ds) \div 2 + 1, Len(ds)))

\* format!("{}", time) for time: u64
FormatU64(n) == DigitsToString(DigitsOfNat(n))

\* ds * k + carry on a digit sequence (k, carry small): the digits that take
\* the place of ds and the carry out of its first digit. The right half is
\* done first and its carry goes into the left half, which stays as it is
\* when nothing is carried into a multiplication by 1.
RECURSIVE MulAddCarry(_, _, _)
MulAddCarry(ds, k, carry) ==
    IF Len(ds) = 0 THEN [digits |-> <<>>, carry |-> carry]
    ELSE IF Len(ds) = 1
    THEN [digits |-> <<(ds[1] * k + carry) % 10>>, carry |-> (ds[1] * k + carry) \div 10]
    ELSE LET r == MulAddCarry(SubSeq(ds, Len(ds) \div 2 + 1, Len(ds)), k, carry)
             l == MulAddCarry(SubSeq(ds, 1, Len(ds) \div 2), k, r.carry)
         IN IF r.carry = 0 /\ k = 1
            THEN [digits |-> SubSeq(ds, 1, Len(ds) \div 2) \o r.digits, carry |-> 0]
            ELSE [digits |-> l.digits \o r.digits, carry |-> l.carry]

JoinCarry(w) == IF w.carry = 0 THEN w.digits ELSE DigitsOfNat(w.carry) \o w.digits

MulAdd(ds, k, carry) == JoinCarry(MulAddCarry(ds, k, carry))

RECURSIVE StripLeadingZeros(_)
StripLeadingZeros(ds) ==
    IF Len(ds) > 1 /\ ds[1] = 0 THEN StripLeadingZeros(Tail(ds)) ELSE ds

RECURSIVE Pow(_, _)
Pow(b, n) == IF n = 0 THEN 1 ELSE b * Pow(b, n - 1)

\* ds * b^n on a digit sequence, `step` powers of b at a time (b^step small
\* enough for MulAdd).
RECURSIVE MulPow(_, _, _, _)
MulPow(ds, b, n, step) ==
    IF n = 0 \/ Len(ds) = 0 THEN ds
    ELSE LET k == IF n < step THEN n ELSE step
         IN MulPow(MulAdd(ds, Pow(b, k), 0), b, n - k, step)

\* m * 2^e as a decimal number: `digits` with the last `nfrac` of them after
\* the point. For e < 0 it is m * 5^(-e) / 10^(-e).
ScaleDec(m, e) ==
    IF e >= 0
    THEN [digits |-> MulPow(m, 2, e, 26), nfrac |-> 0]
    ELSE [digits |-> MulPow(m, 5, 0 - e, 9), nfrac |-> 0 - e]

TwoPow26 == Pow(2, 26)

\* An f64 is its IEEE-754 fields: sign bit, 11-bit biased exponent, and the
\* 52-bit fraction as hi * 2^26 + lo.
F64Mantissa(x) ==
    MulAdd(DigitsOfNat((IF x.exp > 0 THEN TwoPow26 ELSE 0) + x.hi), TwoPow26, x.lo)

F64Exponent(x) == (IF x.exp > 0 THEN x.exp ELSE 1) - 1075

\* The exact decimal expansion of |x| (x finite).
F64Exact(x) ==
    IF x.exp = 0 /\ x.hi = 0 /\ x.lo = 0
    THEN [digits |-> <<0>>, nfrac |-> 0]
    ELSE ScaleDec(F64Mantissa(x), F64Exponent(x))

\* Does the discarded tail `rest` round the kept digits, whose last one is
\* `last`, up? Ties go to even.
RoundsUp(rest, last) ==
    \/ rest[1] > 5
    \/ rest[1] = 5 /\ \E i \in 2..Len(rest) : rest[i] # 0
    \/ rest[1] = 5 /\ (\A i \in 2..Len(rest) : rest[i] = 0) /\ last % 2 = 1

RoundKept(kept, rest, prec) ==
    [digits |-> IF RoundsUp(rest, kept[Len(kept)]) THEN MulAdd(kept, 1, 1) ELSE kept,
     nfrac |-> prec]

\* ds cut after its first `keep` digits (keep < 0: the cut is left of ds).
RoundAt(ds, keep, prec) ==
    RoundKept(IF keep <= 0 THEN <<0>> ELSE SubSeq(ds, 1, keep),
              (IF keep < 0 THEN [i \in 1..(0 - keep) |-> 0] ELSE <<>>)
                  \o SubSeq(ds, (IF keep < 0 THEN 0 ELSE keep) + 1, Len(ds)),
              prec)

\* d rounded to `prec` fractional digits, ties to even (core::fmt's
\* float_to_decimal_exact).
RoundDec(d, prec) ==
    IF d.nfrac <= prec
    THEN [digits |-> d.digits \o [i \in 1..(prec - d.nfrac) |-> 0], nfrac |-> prec]
    ELSE RoundAt(d.digits, Len(d.digits) - (d.nfrac - prec), prec)

\* At least one digit before the last `prec` ones.
PadDigits(ds, prec) ==
    IF Len(ds) <= prec THEN [i \in 1..(prec + 1 - Len(ds)) |-> 0] \o ds ELSE ds

FormatDigits(sign, padded, prec) ==
    (IF sign = 1 THEN "-" ELSE "")
    \o DigitsToString(StripLeadingZeros(SubSeq(padded, 1, Len(padded) - prec)))
    \o (IF prec > 0
        THEN "." \o DigitsToString(SubSeq(padded, Len(padded) - prec + 1, Len(padded)))
        ELSE "")

\* format!("{:.16}", x) for x: f64
FormatF64(x, prec) ==
    IF x.exp = 2047
    THEN IF x.hi = 0 /\ x.lo = 0
         THEN (IF x.sign = 1 THEN "-inf" ELSE "inf")
         ELSE "NaN"
    ELSE FormatDigits(x.sign, PadDigits(RoundDec(F64Exact(x), prec).digits, prec), prec)

\* ------------------------------------------------------------------ url

\* form_urlencoded::byte_serialize: ASCII alphanumerics and * - . _ stay,
\* a space becomes +, every other byte is percent-encoded.
FormUrlencodedKept == AsciiAlphanumeric \cup {"*", "-", ".", "_"}

\* First index at or after `from` whose character is not in `set`;
\* Len(s) + 1 when there is none.
IndexOfNone(s, set, from) ==
    LET hits == {i \in from..Len(s) : CharAt(s, i) \notin set}
    IN IF hits = {} THEN Len(s) + 1 ELSE CHOOSE i \in hits : \A j \in hits : i <= j

RECURSIVE ByteSerialize(_)
ByteSerialize(s) ==
    LET i == IndexOfNone(s, FormUrlencodedKept, 1)
    IN IF i > Len(s) THEN s
       ELSE SubSeq(s, 1, i - 1)
            \o (IF CharAt(s, i) = " " THEN "+" ELSE PercentEncodeByte(CharAt(s, i)))
            \o ByteSerialize(SubSeq(s, i + 1, Len(s)))

\* percent_encoding::utf8_percent_encode(s, set) for ASCII s.
RECURSIVE PercentEncode(_, _)
PercentEncode(s, set) ==
    LET i == IndexOfAny(s, set, 1)
    IN IF i > Len(s) THEN s
       ELSE SubSeq(s, 1, i - 1) \o PercentEncodeByte(CharAt(s, i))
            \o PercentEncode(SubSeq(s, i + 1, Len(s)), set)

\* The url crate's percent-encode sets (printable ASCII part; the grave
\* accent of FRAGMENT and PATH is not representable here).
FRAGMENT_SET == {" ", "\"", "<", ">"}
PATH_SET == FRAGMENT_SET \cup {"#", "?", "{", "}"}
SPECIAL_QUERY_SET == {" ", "\"", "#", "<", ">", "'"}

\* Url::parse drops ASCII tab and newline characters anywhere in the input.
RECURSIVE RemoveTabNewline(_)
RemoveTabNewline(s) ==
    LET i == IndexOfAny(s, {"\t", "\n", "\r"}, 1)
    IN IF i > Len(s) THEN s
       ELSE SubSeq(s, 1, i - 1) \o RemoveTabNewline(SubSeq(s, i + 1, Len(s)))

\* The pieces of s between the characters of `seps` (at least one piece).
RECURSIVE SplitAny(_, _)
SplitAny(s, seps) ==
    LET i == IndexOfAny(s, seps, 1)
    IN IF i > Len(s) THEN <<s>>
       ELSE <<SubSeq(s, 1, i - 1)>> \o SplitAny(SubSeq(s, i + 1, Len(s)), seps)

IsSingleDot(seg) == seg \in {".", "%2e", "%2E"}

IsDoubleDot(seg) ==
    seg \in {"..", ".%2e", ".%2E", "%2e.", "%2E.", "%2e%2e", "%2E%2E", "%2e%2E", "%2E%2e"}

\* The path state of the URL parser for a special scheme: "." is dropped,
\* ".." removes the segment before it, the others are percent-encoded.
RECURSIVE PathSegments(_, _, _)
PathSegments(raw, i, acc) ==
    IF i > Len(raw) THEN acc
    ELSE LET seg == raw[i]
             last == (i = Len(raw))
         IN IF IsDoubleDot(seg)
            THEN PathSegments(raw, i + 1,
                     LET popped == IF Len(acc) > 0 THEN SubSeq(acc, 1, Len(acc) - 1) ELSE acc
                     IN IF last THEN Append(popped, "") ELSE popped)
            ELSE IF IsSingleDot(seg)
            THEN PathSegments(raw, i + 1, IF last THEN Append(acc, "") ELSE acc)
            ELSE PathSegments(raw, i + 1, Append(acc, PercentEncode(seg, PATH_SET)))

\* Url::parse of an "https://host/..." string, state by state: the host ends
\* at the first / \ ? or #, the path at the first ? or #, the query at the
\* first #.
ParseFragment(s, hostStart, hostEnd, pathEnd, queryEnd) ==
    [scheme |-> "https",
     host |-> SubSeq(s, hostStart, hostEnd - 1),
     path |-> "/" \o Join(PathSegments(SplitAny(SubSeq(s, hostEnd + 1, pathEnd - 1),
                                               {"/", "\\"}), 1, <<>>), "/"),
     query |-> IF pathEnd < queryEnd
               THEN Some(PercentEncode(SubSeq(s, pathEnd + 1, queryEnd - 1), SPECIAL_QUERY_SET))
               ELSE None,
     fragment |-> IF queryEnd <= Len(s)
                  THEN Some(PercentEncode(SubSeq(s, queryEnd + 1, Len(s)), FRAGMENT_SET))
                  ELSE None]

ParseQuery(s, hostStart, hostEnd, pathEnd) ==
    ParseFragment(s, hostStart, hostEnd, pathEnd,
                  IF pathEnd <= Len(s) /\ CharAt(s, pathEnd) = "?"
                  THEN IndexOfAny(s, {"#"}, pathEnd + 1)
                  ELSE pathEnd)

ParsePath(s, hostStart, hostEnd) ==
    ParseQuery(s, hostStart, hostEnd, IndexOfAny(s, {"?", "#"}, hostEnd))

ParseHost(s, hostStart) ==
    ParsePath(s, hostStart, IndexOfAny(s, {"/", "\\", "?", "#"}, hostStart))

UrlParse(input) == ParseHost(RemoveTabNewline(input), Len("https://") + 1)

\* Url::as_str: the serialization.
UrlAsStr(url) ==
    url.scheme \o "://" \o url.host \o url.path
    \o (IF url.query.some THEN "?" \o url.query.val ELSE "")
    \o (IF url.fragment.some THEN "#" \o url.fragment.val ELSE "")

\* Url::query_pairs_mut: a URL without a query gets the empty query (its
\* serialization gains the "?"); the fragment is kept.
QueryPairsMut(url) ==
    IF url.query.some THEN url ELSE [url EXCEPT !.query = Some("")]

\* A faulty append_pair: name and value written as they are.
AppendPairRaw(url, name, value) ==
    [url EXCEPT !.query =
        Some(url.query.val
             \o (IF Len(url.query.val) > 0 THEN "&" ELSE "")
             \o name \o "=" \o value)]

\* form_urlencoded::Serializer::append_pair on the URL's query: "&" unless
\* the query is still empty, then name=value, both byte-serialized.
AppendPair(url, name, value) ==
    [url EXCEPT !.query =
        Some(url.query.val
             \o (IF Len(url.query.val) > 0 THEN "&" ELSE "")
             \o ByteSerialize(name) \o "=" \o ByteSerialize(value))]

\* exclude.iter().map(|e| to_string(e).trim_matches('"')).collect()
ExcludeTokens(exclude) == [i \in 1..Len(exclude) |-> WireToken("ExcludeBlock", exclude[i])]

\* ------------------------------------------------------------- builders

\* ForecastRequestBuilder::new
ForecastRequestBuilder_new(api_key, latitude, longitude) ==
    [api_key |-> api_key,
     latitude |-> latitude,
     longitude |-> longitude,
     exclude |-> <<>>,
     extend |-> None,
     lang |-> None,
     units |-> None]

\* A faulty exclude_block: the block goes to the front of the list.
ForecastRequestBuilder_exclude_block_front(self, exclude_block) ==
    [self EXCEPT !.exclude = <<exclude_block>> \o self.exclude]

ForecastRequestBuilder_exclude_block(self, exclude_block) ==
    [self EXCEPT !.exclude = Append(self.exclude, exclude_block)]

\* A faulty append: Vec::extend_from_slice, which copies `other` and leaves it
\* as it was.
VecExtendFromSlice(self, other) == [self |-> self \o other, other |-> other]

\* Vec::append(&mut self, other: &mut Vec): moves all of `other` to the end
\* of self, leaving `other` empty.
VecAppend(self, other) == [self |-> self \o other, other |-> <<>>]

\* The builder returned, and the caller's collection as the call leaves it.
ForecastRequestBuilder_exclude_blocks(self, exclude_blocks) ==
    LET r == VecAppend(self.exclude, exclude_blocks)
    IN [builder |-> [self EXCEPT !.exclude = r.self], exclude_blocks |-> r.other]

ForecastRequestBuilder_extend(self, extend) ==
    [self EXCEPT !.extend = Some(extend)]

\* A faulty lang: a language already set is kept.
ForecastRequestBuilder_lang_keep_first(self, lang) ==
    IF self.lang.some THEN self ELSE [self EXCEPT !.lang = Some(lang)]

ForecastRequestBuilder_lang(self, lang) ==
    [self EXCEPT !.lang = Some(lang)]

\* A faulty setter: units also clears the language.
ForecastRequestBuilder_units_resets_lang(self, units) ==
    [self EXCEPT !.units = Some(units), !.lang = None]

ForecastRequestBuilder_units(self, units) ==
    [self EXCEPT !.units = Some(units)]

\* 6.66, 66.6 and 666: the tests' LAT, LONG and TIME.
LAT == [sign |-> 0, exp |-> 1025, hi |-> 44627394, lo |-> 37580964]
LONG == [sign |-> 0, exp |-> 1029, hi |-> 2726297, lo |-> 40265318]
TIME == 666

\* 37.8267 and -122.4233
LAT2 == [sign |-> 0, exp |-> 1028, hi |-> 12219475, lo |-> 37473590]
LONG2 == [sign |-> 1, exp |-> 1029, hi |-> 61261270, lo |-> 14817637]

\* Values of f64 that the constructors take like any other: f64::NAN,
\* f64::INFINITY, f64::NEG_INFINITY, -0.0, 1e22 and 1e-7.
NAN == [sign |-> 0, exp |-> 2047, hi |-> 33554432, lo |-> 0]
INFINITY == [sign |-> 0, exp |-> 2047, hi |-> 0, lo |-> 0]
NEG_INFINITY == [sign |-> 1, exp |-> 2047, hi |-> 0, lo |-> 0]
NEG_ZERO == [sign |-> 1, exp |-> 0, hi |-> 0, lo |-> 0]
TEN_SEXTILLION == [sign |-> 0, exp |-> 1096, hi |-> 3945409, lo |-> 38655378]
TENTH_MILLIONTH == [sign |-> 0, exp |-> 999, hi |-> 45481126, lo |-> 45920072]

CoordinateInputs == {LAT, NAN, INFINITY, NEG_INFINITY, NEG_ZERO, TEN_SEXTILLION, TENTH_MILLIONTH}

\* The callers' coordinates, and format!("{:.16}", x) of each, computed once.
Coordinates == {LAT, LONG, LAT2, LONG2} \cup CoordinateInputs

Formatted16 == [x \in Coordinates |-> FormatF64(x, 16)]

\* format!("{:.16}", x)
Format16(x) == IF x \in Coordinates THEN Formatted16[x] ELSE FormatF64(x, 16)

\* A faulty exclude step: the pair is appended whether or not there are blocks.
AppendExcludeAlways(url, exclude) ==
    AppendPair(url, EXCLUDE, Join(ExcludeTokens(exclude), ","))

\* if !self.exclude.is_empty() { query_pairs.append_pair(EXCLUDE, &...join(",")); }
AppendExclude(url, exclude) ==
    IF Len(exclude) # 0
    THEN AppendPair(url, EXCLUDE, Join(ExcludeTokens(exclude), ","))
    ELSE url

\* if let Some(ref v) = field { query_pairs.append_pair(name, to_string(v).trim_matches('"')); }
AppendOption(url, name, enum, field) ==
    IF field.some THEN AppendPair(url, name, WireToken(enum, field.val)) ELSE url

ForecastRequestBuilder_url_string(self) ==
    FORECAST_URL \o "/" \o self.api_key \o "/"
    \o Format16(self.latitude) \o "," \o Format16(self.longitude)

\* A faulty build_url: lang is appended before extend.
ForecastRequestBuilder_build_url_lang_first(self) ==
    AppendOption(
        AppendOption(
            AppendOption(
                AppendExclude(
                    QueryPairsMut(UrlParse(ForecastRequestBuilder_url_string(self))),
                    self.exclude),
                LANG, "Lang", self.lang),
            EXTEND, "ExtendBy", self.extend),
        UNITS, "Units", self.units)

ForecastRequestBuilder_build_url(self) ==
    AppendOption(
        AppendOption(
            AppendOption(
                AppendExclude(
                    QueryPairsMut(UrlParse(ForecastRequestBuilder_url_string(self))),
                    self.exclude),
                EXTEND, "ExtendBy", self.extend),
            LANG, "Lang", self.lang),
        UNITS, "Units", self.units)

\* ForecastRequest::new (pub): the fields as given, the URL included.
ForecastRequest_new(api_key, latitude, longitude, url, exclude, extend, lang, units) ==
    [api_key |-> api_key,
     latitude |-> latitude,
     longitude |-> longitude,
     url |-> url,
     exclude |-> exclude,
     extend |-> extend,
     lang |-> lang,
     units |-> units]

\* A faulty build: a URL whose query is empty is stored without the query.
ForecastRequestBuilder_build_no_empty_query(self) ==
    ForecastRequest_new(
        self.api_key, self.latitude, self.longitude,
        IF ForecastRequestBuilder_build_url(self).query = Some("")
        THEN [ForecastRequestBuilder_build_url(self) EXCEPT !.query = None]
        ELSE ForecastRequestBuilder_build_url(self),
        self.exclude, self.extend, self.lang, self.units)

\* ForecastRequestBuilder::build, through ForecastRequest::new
ForecastRequestBuilder_build(self) ==
    ForecastRequest_new(
        self.api_key, self.latitude, self.longitude,
        ForecastRequestBuilder_build_url(self),
        self.exclude, self.extend, self.lang, self.units)

\* TimeMachineRequest::new (pub): the fields as given, the URL included.
TimeMachineRequest_new(api_key, latitude, longitude, time, url, exclude, lang, units) ==
    [api_key |-> api_key,
     latitude |-> latitude,
     longitude |-> longitude,
     time |-> time,
     url |-> url,
     exclude |-> exclude,
     lang |-> lang,
     units |-> units]

\* TimeMachineRequestBuilder::new
TimeMachineRequestBuilder_new(api_key, latitude, longitude, time) ==
    [api_key |-> api_key,
     latitude |-> latitude,
     longitude |-> longitude,
     time |-> time,
     exclude |-> <<>>,
     lang |-> None,
     units |-> None]

TimeMachineRequestBuilder_exclude_block(self, exclude_block) ==
    [self EXCEPT !.exclude = Append(self.exclude, exclude_block)]

TimeMachineRequestBuilder_exclude_blocks(self, exclude_blocks) ==
    LET r == VecAppend(self.exclude, exclude_blocks)
    IN [builder |-> [self EXCEPT !.exclude = r.self], exclude_blocks |-> r.other]

TimeMachineRequestBuilder_lang(self, lang) ==
    [self EXCEPT !.lang = Some(lang)]

TimeMachineRequestBuilder_units(self, units) ==
    [self EXCEPT !.units = Some(units)]

\* A faulty url_string: the forecast path, without the time.
TimeMachineRequestBuilder_url_string_no_time(self) ==
    FORECAST_URL \o "/" \o self.api_key \o "/"
    \o Format16(self.latitude) \o "," \o Format16(self.longitude)

TimeMachineRequestBuilder_url_string(self) ==
    FORECAST_URL \o "/" \o self.api_key \o "/"
    \o Format16(self.latitude) \o "," \o Format16(self.longitude) \o ","
    \o FormatU64(self.time)

TimeMachineRequestBuilder_build_url(self) ==
    AppendOption(
        AppendOption(
            AppendExclude(
                QueryPairsMut(UrlParse(TimeMachineRequestBuilder_url_string(self))),
                self.exclude),
            LANG, "Lang", self.lang),
        UNITS, "Units", self.units)

\* TimeMachineRequestBuilder::build, through TimeMachineRequest::new
TimeMachineRequestBuilder_build(self) ==
    TimeMachineRequest_new(
        self.api_key, self.latitude, self.longitude, self.time,
        TimeMachineRequestBuilder_build_url(self),
        self.exclude, self.lang, self.units)

\* --------------------------------------------------------------- inputs

\* The required fields a caller constructs a builder with.
Sites ==
    {[api_key |-> "some_api_key", latitude |-> LAT, longitude |-> LONG, time |-> TIME],
     [api_key |-> "my_dark_sky_api_key", latitude |-> LAT2, longitude |-> LONG2, time |-> 0]}

Kinds == {"forecast", "time_machine"}

\* The arguments the caller passes to the configuration calls.
BlockArgs == {"Hourly", "Daily"}
ExtendArgs == {"Hourly"}
LangArgs == {"Arabic", "NorwegianBokmal"}
UnitsArgs == {"Imperial", "SI"}

\* The vectors the caller fills its `blocks` collection with.
BlockVecs == {<<"Daily", "Alerts">>, <<"Hourly", "Hourly">>}

\* A builder's exclude list grows to at most this length.
MaxExclude == 3

\* Requests a caller makes with the public constructors of the request
\* types, without a builder: the URL is whatever the caller passes.
HandMadeRequests ==
    {[kind |-> "forecast",
      request |-> ForecastRequest_new("k", LAT, LONG,
                                      UrlParse("https://example.invalid/elsewhere"),
                                      <<"Hourly">>, None, Some("Arabic"), None)],
     [kind |-> "time_machine",
      request |-> TimeMachineRequest_new("k", LAT, LONG, TIME,
                                         UrlParse("https://example.invalid/t?extend=hourly"),
                                         <<>>, None, None)]}

\* ---------------------------------------------------------------- state

VARIABLES
    kind,      \* which builder the caller holds: "forecast" or "time_machine"
    builder,   \* Some(the builder) until build() consumes it
    request,   \* Some(the finalized request) once build() has returned
    blocks,    \* the caller's Vec<ExcludeBlock>, lent to exclude_blocks
    drained,   \* history: blocks was lent to exclude_blocks since the caller filled it
    supplied,  \* history: the blocks given to this builder, in call order
    lastArg,   \* history: the last argument of each setter called on this builder
    passed,    \* history: every argument each setter was called with
    lastCall,  \* history: the last method called on this builder before build()
    codec,     \* the enum codec's last call: its input and its result
    held,      \* Some(an earlier finalized request the caller still holds, as made)
    gets,      \* the transport's log: every GET it was asked for, with the call it is of
    calls,     \* the caller's ApiClient calls (futures) in the order they were made:
               \* what was passed, how far the call got, what the transport
               \* answered and what the call returned
    madeBy     \* history: how the request the caller holds was made: "build" by a
               \* builder, "new" by the request type's constructor, "none" without one

vars ==
    <<kind, builder, request, blocks, drained, supplied, lastArg, passed, lastCall, codec,
      held, gets, calls, madeBy>>

clientVars == <<held, gets, calls, madeBy>>

NewBuilder(k, site) ==
    IF k = "forecast"
    THEN ForecastRequestBuilder_new(site.api_key, site.latitude, site.longitude)
    ELSE TimeMachineRequestBuilder_new(site.api_key, site.latitude, site.longitude, site.time)

NoArgs == [extend |-> None, lang |-> None, units |-> None]
NoPassed == [extend |-> {}, lang |-> {}, units |-> {}]
CodecIdle == [op |-> "idle"]

Init ==
    /\ kind \in Kinds
    /\ \E site \in Sites : builder = Some(NewBuilder(kind, site))
    /\ request = None
    /\ blocks \in BlockVecs
    /\ drained = FALSE
    /\ supplied = <<>>
    /\ lastArg = NoArgs
    /\ passed = NoPassed
    /\ lastCall = "new"
    /\ codec = CodecIdle
    /\ held = None
    /\ gets = <<>>
    /\ calls = <<>>
    /\ madeBy = "none"

\* builder = builder.exclude_block(b)
CallExcludeBlock(b) ==
    /\ builder.some
    /\ Len(builder.val.exclude) < MaxExclude
    /\ builder' = Some(IF kind = "forecast"
                       THEN ForecastRequestBuilder_exclude_block(builder.val, b)
                       ELSE TimeMachineRequestBuilder_exclude_block(builder.val, b))
    /\ supplied' = Append(supplied, b)
    /\ lastCall' = "exclude_block"
    /\ UNCHANGED <<kind, request, blocks, drained, lastArg, passed, codec>>
    /\ UNCHANGED clientVars

\* builder = builder.exclude_blocks(&mut blocks)
CallExcludeBlocks ==
    /\ builder.some
    /\ Len(builder.val.exclude) + Len(blocks) <= MaxExclude
    /\ LET r == IF kind = "forecast"
                THEN ForecastRequestBuilder_exclude_blocks(builder.val, blocks)
                ELSE TimeMachineRequestBuilder_exclude_blocks(builder.val, blocks)
       IN /\ builder' = Some(r.builder)
          /\ blocks' = r.exclude_blocks
    /\ drained' = TRUE
    /\ supplied' = supplied \o blocks
    /\ lastCall' = "exclude_blocks"
    /\ UNCHANGED <<kind, request, lastArg, passed, codec>>
    /\ UNCHANGED clientVars

\* builder = builder.extend(e): only ForecastRequestBuilder has the method.
CallExtend(e) ==
    /\ builder.some
    /\ kind = "forecast"
    /\ builder' = Some(ForecastRequestBuilder_extend(builder.val, e))
    /\ lastArg' = [lastArg EXCEPT !.extend = Some(e)]
    /\ passed' = [passed EXCEPT !.extend = @ \cup {e}]
    /\ lastCall' = "extend"
    /\ UNCHANGED <<kind, request, blocks, drained, supplied, codec>>
    /\ UNCHANGED clientVars

\* builder = builder.lang(l)
CallLang(l) ==
    /\ builder.some
    /\ builder' = Some(IF kind = "forecast"
                       THEN ForecastRequestBuilder_lang(builder.val, l)
                       ELSE TimeMachineRequestBuilder_lang(builder.val, l))
    /\ lastArg' = [lastArg EXCEPT !.lang = Some(l)]
    /\ passed' = [passed EXCEPT !.lang = @ \cup {l}]
    /\ lastCall' = "lang"
    /\ UNCHANGED <<kind, request, blocks, drained, supplied, codec>>
    /\ UNCHANGED clientVars

\* builder = builder.units(u)
CallUnits(u) ==
    /\ builder.some
    /\ builder' = Some(IF kind = "forecast"
                       THEN ForecastRequestBuilder_units(builder.val, u)
                       ELSE TimeMachineRequestBuilder_units(builder.val, u))
    /\ lastArg' = [lastArg EXCEPT !.units = Some(u)]
    /\ passed' = [passed EXCEPT !.units = @ \cup {u}]
    /\ lastCall' = "units"
    /\ UNCHANGED <<kind, request, blocks, drained, supplied, codec>>
    /\ UNCHANGED clientVars

\* request = builder.build(): consumes the builder.
CallBuild ==
    /\ builder.some
    /\ request' = Some(IF kind = "forecast"
                       THEN ForecastRequestBuilder_build(builder.val)
                       ELSE TimeMachineRequestBuilder_build(builder.val))
    /\ builder' = None
    /\ madeBy' = "build"
    /\ UNCHANGED <<kind, blocks, drained, supplied, lastArg, passed, lastCall, codec>>
    /\ UNCHANGED <<held, gets, calls>>

\* The caller, holding no builder, drops the request if it holds one (no
\* live future borrows it) and constructs the next builder, of either kind,
\* keeping its `blocks` collection (as the crate's doc example does).
CallNew(k, site) ==
    /\ ~builder.some
    /\ \A i \in 1..Len(calls) : calls[i].stage \in {"created", "sent"} => calls[i].owned.some
    /\ kind' = k
    /\ builder' = Some(NewBuilder(k, site))
    /\ request' = None
    /\ supplied' = <<>>
    /\ lastArg' = NoArgs
    /\ passed' = NoPassed
    /\ lastCall' = "new"
    /\ madeBy' = "none"
    /\ UNCHANGED <<blocks, drained, codec>>
    /\ UNCHANGED <<held, gets, calls>>

\* The caller drops the builder, if it holds one, and makes a request with
\* ForecastRequest::new / TimeMachineRequest::new.
CallRequestNew(made) ==
    /\ ~request.some
    /\ kind' = made.kind
    /\ builder' = None
    /\ request' = Some(made.request)
    /\ supplied' = <<>>
    /\ lastArg' = NoArgs
    /\ passed' = NoPassed
    /\ lastCall' = "request_new"
    /\ madeBy' = "new"
    /\ UNCHANGED <<blocks, drained, codec>>
    /\ UNCHANGED <<held, gets, calls>>

\* The caller fills its collection again: blocks = vec![..]
CallerFill(v) ==
    /\ blocks # v
    /\ blocks' = v
    /\ drained' = FALSE
    /\ UNCHANGED <<kind, builder, request, supplied, lastArg, passed, lastCall, codec>>
    /\ UNCHANGED clientVars

Next ==
    \/ \E b \in BlockArgs : CallExcludeBlock(b)
    \/ CallExcludeBlocks
    \/ \E e \in ExtendArgs : CallExtend(e)
    \/ \E l \in LangArgs : CallLang(l)
    \/ \E u \in UnitsArgs : CallUnits(u)
    \/ CallBuild
    \/ \E made \in HandMadeRequests : CallRequestNew(made)
    \/ \E k \in Kinds, site \in Sites : CallNew(k, site)
    \/ \E v \in BlockVecs : CallerFill(v)

Spec == Init /\ [][Next]_vars

\* ---------------------------------------------------------- codec calls

\* The strings a caller hands to the decoder: every token of every enum, the
\* Norwegian alias, and strings no enum lists.
UndocumentedTokens == {"", "Hourly", "NB", "No", "imperial", "default", "us "}

TokenInputs ==
    UNION {Tokens(enum) : enum \in EnumNames} \cup {"no"} \cup UndocumentedTokens

\* A codec call: the operation, the enum, its input, its result, and (history)
\* the input of the call before it when this call was fed that call's output.
CodecCall(op, enum, input, output, origin) ==
    [op |-> op, enum |-> enum, input |-> input, output |-> output, origin |-> origin]

InitCodec ==
    /\ kind = "forecast"
    /\ builder = Some(NewBuilder("forecast",
                                 [api_key |-> "some_api_key", latitude |-> LAT,
                                  longitude |-> LONG, time |-> TIME]))
    /\ request = None
    /\ blocks = <<"Daily", "Alerts">>
    /\ drained = FALSE
    /\ supplied = <<>>
    /\ lastArg = NoArgs
    /\ passed = NoPassed
    /\ lastCall = "new"
    /\ codec = CodecIdle
    /\ held = None
    /\ gets = <<>>
    /\ calls = <<>>
    /\ madeBy = "none"

\* v.serialize(..) on a value the caller constructed
CallSerialize(enum, v) ==
    /\ codec' = CodecCall("serialize", enum, v, Ok(Serialize(enum, v)), None)
    /\ UNCHANGED <<kind, builder, request, blocks, drained, supplied, lastArg, passed, lastCall>>
    /\ UNCHANGED clientVars

\* T::deserialize(..) on a string the caller received
CallDeserialize(enum, s) ==
    /\ codec' = CodecCall("deserialize", enum, s, Deserialize(enum, s), None)
    /\ UNCHANGED <<kind, builder, request, blocks, drained, supplied, lastArg, passed, lastCall>>
    /\ UNCHANGED clientVars

\* T::deserialize(..) on what the last serialize call wrote
CallDeserializeWritten ==
    /\ codec.op = "serialize"
    /\ codec' = CodecCall("deserialize", codec.enum, codec.output.val,
                          Deserialize(codec.enum, codec.output.val), Some(codec.input))
    /\ UNCHANGED <<kind, builder, request, blocks, drained, supplied, lastArg, passed, lastCall>>
    /\ UNCHANGED clientVars

\* v.serialize(..) on the value the last deserialize call returned
CallSerializeRead ==
    /\ codec.op = "deserialize"
    /\ codec.output.ok
    /\ codec' = CodecCall("serialize", codec.enum, codec.output.val,
                          Ok(Serialize(codec.enum, codec.output.val)), Some(codec.input))
    /\ UNCHANGED <<kind, builder, request, blocks, drained, supplied, lastArg, passed, lastCall>>
    /\ UNCHANGED clientVars

NextCodec ==
    \/ \E enum \in EnumNames : \E v \in Variants(enum) : CallSerialize(enum, v)
    \/ \E enum \in EnumNames : \E s \in TokenInputs : CallDeserialize(enum, s)
    \/ CallDeserializeWritten
    \/ CallSerializeRead

SpecCodec == InitCodec /\ [][NextCodec]_vars

\* ----------------------------------------------------------- the client

\* What the transport (reqwest) answers to a GET: a response, whatever its
\* status, or an error.
TransportOutcomes == {Ok("200 OK"), Ok("404 Not Found"), Err("timed out")}

\* A faulty get_forecast: the query is taken off the request's URL once sent.
ApiClient_get_forecast_send_take(req) ==
    [get |-> <<req.url>>,
     request |-> [req EXCEPT !.url = [@ EXCEPT !.query = None]]]

\* ApiClient::get_forecast up to its .await, which the first poll of the
\* call's future runs:
\*   self.client.get(request.borrow().url.clone()).send()
\* the GETs the transport is asked for, and the borrowed request as this
\* leaves it.
ApiClient_get_forecast_send(req) ==
    [get |-> <<req.url>>, request |-> req]

\* A faulty get_forecast: the GET is issued again when the transport fails.
ApiClient_get_forecast_await_retry(req, outcome) ==
    [get |-> IF outcome.ok THEN <<>> ELSE <<req.url>>, result |-> outcome]

\* A faulty get_forecast: a response with an error status is made an error
\* (reqwest's error_for_status).
ApiClient_get_forecast_await_status(req, outcome) ==
    [get |-> <<>>,
     result |-> IF outcome.ok /\ outcome.val # "200 OK" THEN Err(outcome.val) ELSE outcome]

\* ApiClient::get_forecast from its .await on, which the poll after the
\* transport's answer `outcome` runs: the value of send().await is the value
\* of the call; the transport is asked for nothing more.
ApiClient_get_forecast_await(req, outcome) ==
    [get |-> <<>>, result |-> outcome]

\* ApiClient::get_time_machine, in the same two parts.
ApiClient_get_time_machine_send(req) ==
    [get |-> <<req.url>>, request |-> req]

ApiClient_get_time_machine_await(req, outcome) ==
    [get |-> <<>>, result |-> outcome]

\* How the caller passes the request (T: Borrow<ForecastRequest>): the
\* request itself, a clone of it, or a reference to it.
SendModes == {"value", "clone", "reference"}

\* The caller makes at most this many ApiClient calls.
MaxCalls == 2

\* The required fields of the callers of the client: the tests' site.
CallerSites ==
    {[api_key |-> "some_api_key", latitude |-> LAT, longitude |-> LONG, time |-> TIME]}

InitCaller ==
    /\ kind \in Kinds
    /\ \E site \in CallerSites : builder = Some(NewBuilder(kind, site))
    /\ request = None
    /\ blocks = <<"Daily", "Alerts">>
    /\ drained = FALSE
    /\ supplied = <<>>
    /\ lastArg = NoArgs
    /\ passed = NoPassed
    /\ lastCall = "new"
    /\ codec = CodecIdle
    /\ held = None
    /\ gets = <<>>
    /\ calls = <<>>
    /\ madeBy = "none"

\* A call's future lives until the call returns or the future is dropped.
InFlight(call) == call.stage \in {"created", "sent"}

\* A live future holds a reference to the caller's request: the request
\* cannot be moved or dropped.
Borrowed == \E i \in 1..Len(calls) : InFlight(calls[i]) /\ ~calls[i].owned.some

\* The request the future of call i reads: its own, or the caller's.
RequestOf(call) == IF call.owned.some THEN call.owned.val ELSE request.val

\* The GETs of call i, as the transport logs them.
LogOf(i, urls) == [n \in 1..Len(urls) |-> [call |-> i, url |-> urls[n]]]

\* f = api_client.get_forecast(..) / api_client.get_time_machine(..) on the
\* request the caller holds: an async fn, the call makes the future and runs
\* nothing of the body. Passed by value, the request moves into the future;
\* passed as a clone, the clone does; passed by reference, the future borrows
\* the caller's request.
CallGet(mode) ==
    /\ request.some
    /\ Len(calls) < MaxCalls
    /\ mode = "value" => ~Borrowed
    /\ calls' = Append(calls, [fn |-> IF kind = "forecast" THEN "get_forecast"
                                      ELSE "get_time_machine",
                               madeBy |-> madeBy,
                               owned |-> IF mode = "reference" THEN None ELSE request,
                               stage |-> "created",
                               outcome |-> None,
                               result |-> None])
    /\ request' = IF mode = "value" THEN None ELSE request
    /\ madeBy' = IF mode = "value" THEN "none" ELSE madeBy
    /\ UNCHANGED <<kind, builder, blocks, drained, supplied, lastArg, passed, lastCall,
                   codec, held, gets>>

\* The first poll of the future of call i (f.await, or an executor): the body
\* runs up to send().await, the transport is asked for the GET, the poll is
\* Pending.
CallPollSend(i) ==
    /\ i \in 1..Len(calls)
    /\ calls[i].stage = "created"
    /\ LET r == IF calls[i].fn = "get_forecast"
                THEN ApiClient_get_forecast_send(RequestOf(calls[i]))
                ELSE ApiClient_get_time_machine_send(RequestOf(calls[i]))
       IN /\ gets' = gets \o LogOf(i, r.get)
          /\ calls' = [calls EXCEPT ![i].stage = "sent",
                                    ![i].owned = IF @.some THEN Some(r.request) ELSE @]
          /\ request' = IF calls[i].owned.some THEN request ELSE Some(r.request)
    /\ UNCHANGED <<kind, builder, blocks, drained, supplied, lastArg, passed, lastCall,
                   codec, held, madeBy>>

\* The transport has answered the GET of call i and the future is polled
\* again: the call returns, and the future is gone with what it owned.
CallPollReady(i, outcome) ==
    /\ i \in 1..Len(calls)
    /\ calls[i].stage = "sent"
    /\ LET r == IF calls[i].fn = "get_forecast"
                THEN ApiClient_get_forecast_await(RequestOf(calls[i]), outcome)
                ELSE ApiClient_get_time_machine_await(RequestOf(calls[i]), outcome)
       IN /\ gets' = gets \o LogOf(i, r.get)
          /\ calls' = [calls EXCEPT ![i].stage = "returned",
                                    ![i].owned = None,
                                    ![i].outcome = Some(outcome),
                                    ![i].result = Some(r.result)]
    /\ UNCHANGED <<kind, builder, request, blocks, drained, supplied, lastArg, passed,
                   lastCall, codec, held, madeBy>>

\* The caller drops the future of call i: never polled, it has run nothing;
\* polled once, its GET is out and no result comes back.
CallDropFuture(i) ==
    /\ i \in 1..Len(calls)
    /\ InFlight(calls[i])
    /\ calls' = [calls EXCEPT ![i].stage = IF @ = "created" THEN "dropped" ELSE "cancelled",
                              ![i].owned = None]
    /\ UNCHANGED <<kind, builder, request, blocks, drained, supplied, lastArg, passed,
                   lastCall, codec, held, gets, madeBy>>

\* The caller keeps the finalized request, with what it was made from, and
\* constructs the next builder.
CallKeep(k, site) ==
    /\ request.some
    /\ ~held.some
    /\ ~Borrowed
    /\ held' = Some([kind |-> kind, request |-> request.val, madeBy |-> madeBy,
                     supplied |-> supplied, lastArg |-> lastArg])
    /\ kind' = k
    /\ builder' = Some(NewBuilder(k, site))
    /\ request' = None
    /\ supplied' = <<>>
    /\ lastArg' = NoArgs
    /\ passed' = NoPassed
    /\ lastCall' = "new"
    /\ madeBy' = "none"
    /\ UNCHANGED <<blocks, drained, codec, gets, calls>>

\* The caller makes requests, with a builder or by hand, and sends them.
NextCaller ==
    \/ CallBuild
    \/ \E made \in HandMadeRequests : CallRequestNew(made)
    \/ \E site \in CallerSites : CallNew(kind, site)
    \/ \E mode \in SendModes : CallGet(mode)
    \/ \E i \in 1..MaxCalls : CallPollSend(i)
    \/ \E i \in 1..MaxCalls, outcome \in TransportOutcomes : CallPollReady(i, outcome)
    \/ \E i \in 1..MaxCalls : CallDropFuture(i)

SpecCaller == InitCaller /\ [][NextCaller]_vars

\* A caller of ForecastRequestBuilder and the client.
InitFrozen == InitCaller /\ kind = "forecast"

\* The caller builds a request from its collection, keeps it, refills the
\* collection, builds a second request, and sends what it holds.
NextFrozen ==
    \/ CallExcludeBlocks
    \/ CallBuild
    \/ CallerFill(<<"Hourly", "Hourly">>)
    \/ \E site \in CallerSites : CallKeep(kind, site)
    \/ \E mode \in SendModes : CallGet(mode)
    \/ \E i \in 1..MaxCalls : CallPollSend(i)
    \/ \E i \in 1..MaxCalls, outcome \in TransportOutcomes : CallPollReady(i, outcome)
    \/ \E i \in 1..MaxCalls : CallDropFuture(i)

SpecFrozen == InitFrozen /\ [][NextFrozen]_vars

\* ------------------------------------------------- callers of two builders

\* The required fields of callers that build twice: the tests' site, and one
\* whose latitude is f64::NAN.
PairSites ==
    CallerSites
    \cup {[api_key |-> "some_api_key", latitude |-> NAN, longitude |-> LONG, time |-> TIME]}

InitPairs ==
    /\ kind \in Kinds
    /\ \E site \in PairSites : builder = Some(NewBuilder(kind, site))
    /\ request = None
    /\ blocks = <<"Daily", "Alerts">>
    /\ drained = FALSE
    /\ supplied = <<>>
    /\ lastArg = NoArgs
    /\ passed = NoPassed
    /\ lastCall = "new"
    /\ codec = CodecIdle
    /\ held = None
    /\ gets = <<>>
    /\ calls = <<>>
    /\ madeBy = "none"

NextPairs ==
    \/ CallExcludeBlocks
    \/ \E l \in LangArgs : CallLang(l)
    \/ CallBuild
    \/ \E made \in HandMadeRequests : CallRequestNew(made)
    \/ \E v \in BlockVecs : CallerFill(v)
    \/ \E k \in Kinds, site \in PairSites : CallKeep(k, site)

SpecPairs == InitPairs /\ [][NextPairs]_vars

\* ------------------------------------------- callers with any arguments

\* api_key: &str is taken as it is given: the tests' key, and keys holding
\* characters that mean something in a URL.
ApiKeys == {"some_api_key", "a/b", "k?key=v", "k#f", ".."}

\* A builder of either kind, constructed with any api key and any latitude.
InitInputs ==
    /\ kind \in Kinds
    /\ \E api_key \in ApiKeys, latitude \in CoordinateInputs, longitude \in {LONG, NAN} :
          builder = Some(NewBuilder(kind, [api_key |-> api_key, latitude |-> latitude,
                                           longitude |-> longitude, time |-> TIME]))
    /\ request = None
    /\ blocks = <<"Daily", "Alerts">>
    /\ drained = FALSE
    /\ supplied = <<>>
    /\ lastArg = NoArgs
    /\ passed = NoPassed
    /\ lastCall = "new"
    /\ codec = CodecIdle
    /\ held = None
    /\ gets = <<>>
    /\ calls = <<>>
    /\ madeBy = "none"

NextInputs ==
    \/ \E l \in LangArgs : CallLang(l)
    \/ CallBuild

SpecInputs == InitInputs /\ [][NextInputs]_vars

\* ------------------------------------------------------- reading a URL

HexValue(c) == (CHOOSE i \in 1..Len(HexDigits) : CharAt(HexDigits, i) = c) - 1

CharOfByte(n) == IF n < 96 THEN CharAt(AsciiLow, n - 31) ELSE CharAt(AsciiHigh, n - 96)

\* What a server reads from a form-urlencoded name or value: + is a space,
\* %XX is the byte XX.
RECURSIVE FormDecode(_)
FormDecode(s) ==
    LET i == IndexOfAny(s, {"%", "+"}, 1)
    IN IF i > Len(s) THEN s
       ELSE IF CharAt(s, i) = "+"
       THEN SubSeq(s, 1, i - 1) \o " " \o FormDecode(SubSeq(s, i + 1, Len(s)))
       ELSE SubSeq(s, 1, i - 1)
            \o CharOfByte(16 * HexValue(CharAt(s, i + 1)) + HexValue(CharAt(s, i + 2)))
            \o FormDecode(SubSeq(s, i + 3, Len(s)))

\* One name=value piece of a query string: the name, the value as written in
\* the URL, and the value as a server reads it.
PairOf(piece) ==
    LET i == IndexOfAny(piece, {"="}, 1)
    IN [key |-> FormDecode(SubSeq(piece, 1, i - 1)),
        raw |-> SubSeq(piece, i + 1, Len(piece)),
        value |-> FormDecode(SubSeq(piece, i + 1, Len(piece)))]

\* The pairs of a URL's query string, in the order they are written.
PairsOf(pieces) == [i \in DOMAIN pieces |-> PairOf(pieces[i])]

QueryPairs(url) ==
    IF url.query.some /\ url.query.val # "" THEN PairsOf(SplitAny(url.query.val, {"&"})) ELSE <<>>

KeysOf(pairs) == [i \in DOMAIN pairs |-> pairs[i].key]

QueryKeys(url) == KeysOf(QueryPairs(url))

HasKeyIn(pairs, key) == \E i \in DOMAIN pairs : pairs[i].key = key

HasKey(url, key) == HasKeyIn(QueryPairs(url), key)

\* The pairs with this key, in order.
WithKey(pairs, key) == SelectSeq(pairs, LAMBDA p : p.key = key)

PairsWithKey(url, key) == WithKey(QueryPairs(url), key)

\* keys holds only names of `order`, in the order of `order`, none twice.
InOrder(keys, order) ==
    /\ \A i \in DOMAIN keys : \E r \in DOMAIN order : order[r] = keys[i]
    /\ \A i, j \in DOMAIN keys :
           i < j => \E r, t \in DOMAIN order : r < t /\ order[r] = keys[i] /\ order[t] = keys[j]

ForecastKeyOrder == <<EXCLUDE, EXTEND, LANG, UNITS>>
TimeMachineKeyOrder == <<EXCLUDE, LANG, UNITS>>

\* The caller holds a request that a builder's build() returned.
Built == request.some /\ madeBy = "build"

BuiltForecast == Built /\ kind = "forecast"
BuiltTimeMachine == Built /\ kind = "time_machine"

\* --------------------------------------------------------------- claims

\* The request of the test test_forecast_request_builder_simple.
SimpleCase ==
    /\ BuiltForecast
    /\ request.val.exclude = <<"Hourly", "Daily", "Alerts">>
    /\ request.val.extend = Some("Hourly")
    /\ request.val.lang = Some("Arabic")
    /\ request.val.units = Some("Imperial")

ExcludeJoinedBy(r, pairs, comma) ==
    /\ pairs[1].key = EXCLUDE
    /\ pairs[1].raw = Join(ExcludeTokens(r.exclude), comma)
    /\ pairs[1].value = Join(ExcludeTokens(r.exclude), ",")

\* C1 (as the code has it): a forecast build with a non-empty exclude list
\* writes the exclude value as the blocks' wire tokens joined by commas and
\* then form-urlencoded, so every comma is written %2C and a server reads the
\* comma-joined tokens back; with excludes [Hourly, Daily, Alerts],
\* extend=Hourly, lang=Arabic, units=Imperial the query string is exactly
\* exclude=hourly%2Cdaily%2Calerts&extend=hourly&lang=ar&units=us.
C1_ExcludeCommasEscaped ==
    /\ (BuiltForecast /\ Len(request.val.exclude) > 0) =>
           ExcludeJoinedBy(request.val, QueryPairs(request.val.url), "%2C")
    /\ SimpleCase =>
           request.val.url.query
               = Some("exclude=hourly%2Cdaily%2Calerts&extend=hourly&lang=ar&units=us")

C1_SimpleCaseBuilt ==
    /\ SimpleCase
    /\ lastCall = "units"
    /\ request.val.api_key = "some_api_key"

\* C1 as stated: the tokens are joined by literal, unescaped commas, and the
\* query string of the simple case is
\* exclude=hourly,daily,alerts&extend=hourly&lang=ar&units=us.
C1_ExcludeCommasLiteral ==
    /\ (BuiltForecast /\ Len(request.val.exclude) > 0) =>
           ExcludeJoinedBy(request.val, QueryPairs(request.val.url), ",")
    /\ SimpleCase =>
           request.val.url.query
               = Some("exclude=hourly,daily,alerts&extend=hourly&lang=ar&units=us")

\* C2: whatever configuration calls were made on a forecast builder, and in
\* whatever order, the query keys of the built URL are among exclude, extend,
\* lang, units, in that order, each at most once.
C2_ForecastKeyOrder ==
    BuiltForecast => InOrder(QueryKeys(request.val.url), ForecastKeyOrder)

\* All four parameters are there, and the calls were made out of that order:
\* the only block was given last, after extend, lang and units.
C2_ExcludeCalledLast ==
    /\ BuiltForecast
    /\ QueryKeys(request.val.url) = ForecastKeyOrder
    /\ lastCall = "exclude_block"
    /\ Len(supplied) = 1

PresentIffSet(r, pairs) ==
    /\ HasKeyIn(pairs, EXCLUDE) <=> Len(r.exclude) > 0
    /\ HasKeyIn(pairs, EXTEND) <=> (kind = "forecast" /\ r.extend.some)
    /\ HasKeyIn(pairs, LANG) <=> r.lang.some
    /\ HasKeyIn(pairs, UNITS) <=> r.units.some
    /\ \A i \in DOMAIN pairs : pairs[i].raw # ""
    /\ lastCall = "new" => pairs = <<>>

\* C3: in a built URL, of either builder, exclude is present iff the exclude
\* list is non-empty, and extend, lang, units are present iff the field is
\* set; a request built with no configuration has an empty query, and no
\* parameter is ever written with an empty value.
C3_PresentIffSet ==
    Built => PresentIffSet(request.val, QueryPairs(request.val.url))

\* A request built after exclude_blocks was given an empty collection and
\* nothing else: no parameter at all.
C3_EmptyExcludeBuilt ==
    /\ Built
    /\ lastCall = "exclude_blocks"
    /\ request.val.exclude = <<>>
    /\ lastArg = NoArgs
    /\ request.val.url.query = Some("")

\* C4: the exclude list of the built request is the blocks the caller
\* supplied through exclude_block and exclude_blocks, in call order and in
\* element order, duplicates included; the exclude value of the URL lists
\* their tokens in the same order.
C4_ExcludeInCallOrder ==
    Built =>
        /\ request.val.exclude = supplied
        /\ supplied # <<>> =>
               \E v \in {PairsWithKey(request.val.url, EXCLUDE)} :
                   /\ Len(v) = 1
                   /\ SplitAny(v[1].value, {","})
                          = [i \in DOMAIN supplied |-> WireToken("ExcludeBlock", supplied[i])]

\* One block, then a collection holding the same block twice.
C4_DuplicatesBuilt ==
    /\ Built
    /\ supplied = <<"Daily", "Hourly", "Hourly">>
    /\ lastCall = "exclude_blocks"

\* C5: exclude_blocks leaves the caller's collection empty, and a call that
\* is given a collection an earlier call emptied, on this or on a later
\* builder, adds nothing to the exclude list.
C5_SourceDrained ==
    [][CallExcludeBlocks =>
          /\ blocks' = <<>>
          /\ Len(builder'.val.exclude) = Len(builder.val.exclude) + Len(blocks)
          /\ drained => builder'.val.exclude = builder.val.exclude]_vars

\* The doc example: the time machine builder is given the collection the
\* forecast builder emptied, and its exclude list stays empty.
C5_DrainedPassedAgain ==
    /\ kind = "time_machine"
    /\ builder.some
    /\ lastCall = "exclude_blocks"
    /\ drained
    /\ blocks = <<>>
    /\ supplied = <<>>
    /\ builder.val.exclude = <<>>

\* The pairs have this key exactly once, with the token of v.
OnceWith(pairs, key, enum, v) ==
    \E i \in DOMAIN pairs :
        /\ pairs[i].key = key
        /\ pairs[i].raw = WireToken(enum, v)
        /\ \A j \in DOMAIN pairs : pairs[j].key = key => j = i

LastCallWins(r, pairs) ==
    /\ r.lang = lastArg.lang
    /\ r.units = lastArg.units
    /\ kind = "forecast" => r.extend = lastArg.extend
    /\ lastArg.lang.some => OnceWith(pairs, LANG, "Lang", lastArg.lang.val)
    /\ lastArg.units.some => OnceWith(pairs, UNITS, "Units", lastArg.units.val)
    /\ lastArg.extend.some => OnceWith(pairs, EXTEND, "ExtendBy", lastArg.extend.val)

\* C6: the built request's extend, lang and units are the arguments of the
\* last call of each setter, and the URL has each set parameter exactly
\* once, with the token of that last argument.
C6_LastCallWins ==
    Built => LastCallWins(request.val, QueryPairs(request.val.url))

\* lang and units were each called with two different arguments.
C6_SettersCalledAgain ==
    /\ Built
    /\ Cardinality(passed.lang) = 2
    /\ Cardinality(passed.units) = 2
    /\ request.val.lang = Some("NorwegianBokmal")
    /\ request.val.units = Some("SI")

\* The path of the forecast URL for the same key and coordinates.
ForecastPathOf(r) ==
    ForecastRequestBuilder_build_url(
        ForecastRequestBuilder_new(r.api_key, r.latitude, r.longitude)).path

\* C7: the path of a time machine URL is the forecast path followed by a
\* comma and the time; its query keys are among exclude, lang, units, in that
\* order; it never has an extend parameter.
C7_TimeMachineUrl ==
    BuiltTimeMachine =>
        /\ request.val.url.path = ForecastPathOf(request.val) \o "," \o FormatU64(request.val.time)
        /\ InOrder(QueryKeys(request.val.url), TimeMachineKeyOrder)
        /\ ~HasKey(request.val.url, EXTEND)

C7_TimeMachineBuilt ==
    /\ BuiltTimeMachine
    /\ request.val.time = TIME
    /\ QueryKeys(request.val.url) = TimeMachineKeyOrder
    /\ lastCall = "exclude_blocks"

\* The strings of TokenInputs this enum's deserializer turns into variant v.
AcceptedTokens(enum, v) == {s \in TokenInputs : Deserialize(enum, s) = Ok(v)}

\* C8: deserializing what serialize wrote for a variant gives that variant
\* back, for every variant of ExcludeBlock, ExtendBy, Lang, Units and
\* Severity; and no other variant of the enum is written as the same token.
C8_RoundTrip ==
    /\ (codec.op = "deserialize" /\ codec.origin.some) => codec.output = Ok(codec.origin.val)
    /\ codec.op = "serialize" =>
           \A w \in Variants(codec.enum) \ {codec.input} :
               Serialize(codec.enum, w) # codec.output.val

\* The token written for Units::Imperial was read back.
C8_ImperialReadBack ==
    /\ codec.op = "deserialize"
    /\ codec.enum = "Units"
    /\ codec.origin = Some("Imperial")
    /\ codec.input = "us"

\* C9: "no" and "nb" both deserialize to Lang::NorwegianBokmal, which is
\* always serialized as "nb", also when it was read from "no"; every other
\* variant of every enum is read from one token only.
C9_NorwegianAlias ==
    /\ (codec.op = "deserialize" /\ codec.enum = "Lang" /\ codec.input \in {"no", "nb"}) =>
           codec.output = Ok("NorwegianBokmal")
    /\ (codec.op = "serialize" /\ codec.enum = "Lang" /\ codec.input = "NorwegianBokmal") =>
           codec.output = Ok("nb")
    /\ (codec.op = "deserialize" /\ codec.output.ok) =>
           AcceptedTokens(codec.enum, codec.output.val)
               = IF codec.enum = "Lang" /\ codec.output.val = "NorwegianBokmal"
                 THEN {"nb", "no"}
                 ELSE {codec.input}

\* NorwegianBokmal was read from "no" and then serialized.
C9_AliasWrittenBack ==
    /\ codec.op = "serialize"
    /\ codec.enum = "Lang"
    /\ codec.origin = Some("no")
    /\ codec.input = "NorwegianBokmal"

\* C10: deserializing a string that is not a token of the enum (nor, for
\* Lang, the alias "no") is an "unknown variant" error: no variant comes out.
C10_UnknownTokenFails ==
    (/\ codec.op = "deserialize"
     /\ codec.input \notin Tokens(codec.enum)
     /\ ~(codec.enum = "Lang" /\ codec.input = "no"))
        => codec.output = Err("unknown variant")

\* Units was given "uk", a token of Lang but not of Units, and failed.
C10_UnitsGivenUk ==
    /\ codec.op = "deserialize"
    /\ codec.enum = "Units"
    /\ codec.input = "uk"
    /\ ~codec.output.ok

\* ------------------------------------------------------- claims C11 - C18

\* The GETs the transport was asked for by call i.
GetsOf(i) == {n \in 1..Len(gets) : gets[n].call = i}

\* The URL build() computes for a request of these fields.
BuildUrlOf(fn, req) ==
    IF fn = "get_forecast"
    THEN ForecastRequestBuilder_build_url(req)
    ELSE TimeMachineRequestBuilder_build_url(req)

\* C11 as stated: every get_forecast / get_time_machine invocation that is
\* over (returned, or its future dropped) has asked the transport for exactly
\* one GET, and the URL of that GET was computed by build().
C11_OneGetPerInvocation ==
    \A i \in 1..Len(calls) :
        ~InFlight(calls[i])
            => /\ Cardinality(GetsOf(i)) = 1
               /\ calls[i].madeBy = "build"

\* C11, the part the code keeps: a get_forecast / get_time_machine invocation
\* asks the transport for at most one GET: none until its future is first
\* polled, exactly one from then on, so exactly one for every call that
\* returns. That GET is issued by the first poll, its URL is the URL the
\* passed request holds, which for a request made by build() is the URL
\* build() computes from the request's fields; the return of the call and
\* the drop of the future ask the transport for nothing.
C11_AtMostOneGetPerCall ==
    /\ [](\A i \in 1..Len(calls) :
             Cardinality(GetsOf(i)) = IF calls[i].stage \in {"created", "dropped"} THEN 0 ELSE 1)
    /\ [][\A i \in 1..Len(calls) :
             calls[i].stage = "created" /\ calls'[i].stage = "sent"
                 => /\ gets' = Append(gets, [call |-> i, url |-> RequestOf(calls[i]).url])
                    /\ (calls[i].madeBy = "build"
                           => RequestOf(calls[i]).url = BuildUrlOf(calls[i].fn, RequestOf(calls[i])))]_vars

\* Two calls were polled one after the other; the transport has failed the
\* second, which has returned, while the first has not.
C11_SecondReturnedFirst ==
    /\ Len(calls) >= 2
    /\ calls[1].stage = "sent"
    /\ calls[1].madeBy = "build"
    /\ calls[2].stage = "returned"
    /\ ~calls[2].result.val.ok
    /\ Len(gets) = 2
    /\ gets[1].call = 1

\* C12: what a get_forecast / get_time_machine call returns is the transport's
\* answer itself: a response is returned as that response whatever its status,
\* an error as that error; the client never turns one into the other, and a
\* call that has not returned has no result.
C12_OutcomeReturned ==
    \A i \in 1..Len(calls) :
        IF calls[i].stage = "returned"
        THEN calls[i].result.some /\ calls[i].result = calls[i].outcome
        ELSE calls[i].result = None

\* The transport answered one call with an error status and failed another,
\* and both have returned.
C12_ErrorStatusAndFailure ==
    /\ \E i \in 1..Len(calls) : calls[i].result = Some(Ok("404 Not Found"))
    /\ \E i \in 1..Len(calls) : calls[i].result = Some(Err("timed out"))

\* C15: a request made by build() never changes. No step of the caller
\* (making the future of a call by value, as a clone or by reference, polling
\* or dropping it, building another request, draining or refilling the source
\* collection) leaves the request the caller holds, the request it keeps or a
\* request a future owns with other fields or another URL; a request moved
\* into a future is the request as it was; and a built request only comes
\* into being by a build() call, which consumes its builder and computes the
\* URL that one time.
C15_RequestFrozen ==
    [][/\ (request.some /\ request'.some => request' = request)
       /\ (held.some => held' = held)
       /\ \A i \in 1..Len(calls) :
              calls[i].owned.some /\ calls'[i].owned.some => calls'[i].owned = calls[i].owned
       /\ (Len(calls') > Len(calls) => calls'[Len(calls')].owned \in {None, request})
       /\ (madeBy # "build" /\ madeBy' = "build"
              => /\ builder.some
                 /\ ~builder'.some
                 /\ request'.val.url = BuildUrlOf(IF kind' = "forecast" THEN "get_forecast"
                                                  ELSE "get_time_machine", request'.val))]_vars

\* An earlier request, built from the source collection, is still kept while
\* the collection has been refilled, a later request has been built, one call
\* on it by reference has returned and another is awaiting the transport.
C15_HeldWhileOthersSent ==
    /\ held.some
    /\ held.val.supplied # <<>>
    /\ blocks # <<>>
    /\ request.some
    /\ request.val # held.val.request
    /\ Len(calls) >= 2
    /\ calls[1].stage = "returned"
    /\ calls[2].stage = "sent"
    /\ ~calls[2].owned.some

\* f64's == (IEEE 754): NaN equals nothing, itself included; the two zeros
\* are equal; any other two values are equal when their bits are.
F64Eq(a, b) ==
    IF (a.exp = 2047 /\ (a.hi # 0 \/ a.lo # 0)) \/ (b.exp = 2047 /\ (b.hi # 0 \/ b.lo # 0))
    THEN FALSE
    ELSE IF a.exp = 0 /\ a.hi = 0 /\ a.lo = 0
    THEN b.exp = 0 /\ b.hi = 0 /\ b.lo = 0
    ELSE a = b

\* #[derive(PartialEq)] of ForecastRequest: all fields equal, field by field
\* (Url compares by its serialization).
ForecastRequest_eq(a, b) ==
    /\ a.api_key = b.api_key
    /\ F64Eq(a.latitude, b.latitude)
    /\ F64Eq(a.longitude, b.longitude)
    /\ UrlAsStr(a.url) = UrlAsStr(b.url)
    /\ a.exclude = b.exclude
    /\ a.extend = b.extend
    /\ a.lang = b.lang
    /\ a.units = b.units

\* #[derive(PartialEq)] of TimeMachineRequest
TimeMachineRequest_eq(a, b) ==
    /\ a.api_key = b.api_key
    /\ F64Eq(a.latitude, b.latitude)
    /\ F64Eq(a.longitude, b.longitude)
    /\ a.time = b.time
    /\ UrlAsStr(a.url) = UrlAsStr(b.url)
    /\ a.exclude = b.exclude
    /\ a.lang = b.lang
    /\ a.units = b.units

\* The held request and the current one were built by builders of the same
\* kind, constructed with the same required fields and given the same blocks
\* and the same setter arguments.
SameBuilderInputs ==
    /\ held.some
    /\ request.some
    /\ held.val.madeBy = "build"
    /\ madeBy = "build"
    /\ held.val.kind = kind
    /\ held.val.request.api_key = request.val.api_key
    /\ held.val.request.latitude = request.val.latitude
    /\ held.val.request.longitude = request.val.longitude
    /\ (kind = "time_machine" => held.val.request.time = request.val.time)
    /\ held.val.supplied = supplied
    /\ held.val.lastArg = lastArg

\* C13: two builders with identical required fields and identical
\* configuration calls produce byte-identical URLs and requests that are
\* equal (==).
C13_SameInputsSameRequest ==
    SameBuilderInputs
        => /\ UrlAsStr(held.val.request.url) = UrlAsStr(request.val.url)
           /\ IF kind = "forecast"
              THEN ForecastRequest_eq(held.val.request, request.val)
              ELSE TimeMachineRequest_eq(held.val.request, request.val)

\* C13, the part the code keeps: the URLs of two such requests are
\* byte-identical, and the requests are equal unless a coordinate is NaN.
C13_SameInputsSameUrl ==
    SameBuilderInputs
        => /\ UrlAsStr(held.val.request.url) = UrlAsStr(request.val.url)
           /\ held.val.request.exclude = request.val.exclude
           /\ held.val.request.lang = request.val.lang
           /\ (request.val.latitude # NAN
                  => IF kind = "forecast"
                     THEN ForecastRequest_eq(held.val.request, request.val)
                     ELSE TimeMachineRequest_eq(held.val.request, request.val))

\* Two requests were built from the same inputs, blocks and a language
\* included.
C13_BuiltTwiceAlike ==
    /\ SameBuilderInputs
    /\ supplied # <<>>
    /\ request.val.lang # None
    /\ request.val.latitude # NAN

\* The comma-separated texts of the last path segment of a URL.
CoordinateTexts(url) ==
    SplitAny(SplitAny(url.path, {"/"})[Len(SplitAny(url.path, {"/"}))], {","})

\* Digits with exactly `prec` digits after the decimal point: `dot` is the
\* place of the first "." of t.
IsDecimalAt(t, dot, prec) ==
    /\ dot > 1
    /\ Len(t) - dot = prec
    /\ \A i \in 1..Len(t) : i # dot => CharAt(t, i) \in CharsOf(DecimalDigits)

\* An optional minus sign, digits, a point and exactly `prec` digits.
IsDecimal(s, prec) ==
    IF Len(s) > 0 /\ CharAt(s, 1) = "-"
    THEN IsDecimalAt(SubSeq(s, 2, Len(s)), IndexOfAny(SubSeq(s, 2, Len(s)), {"."}, 1), prec)
    ELSE IsDecimalAt(s, IndexOfAny(s, {"."}, 1), prec)

IsFinite(x) == x.exp # 2047

SixteenDecimals(texts) ==
    /\ Len(texts) >= 2
    /\ IsDecimal(texts[1], 16)
    /\ IsDecimal(texts[2], 16)

\* C14: whatever latitude and longitude a builder of either kind was given
\* (here with the tests' api key), the path of the built URL holds both as
\* decimal numbers with exactly 16 digits after the decimal point.
C14_SixteenDecimals ==
    request.some /\ request.val.api_key = "some_api_key"
        => SixteenDecimals(CoordinateTexts(request.val.url))

\* C14, the part the code keeps: finite coordinates are written with exactly
\* 16 digits after the decimal point.
C14_FiniteSixteenDecimals ==
    (/\ request.some
     /\ request.val.api_key = "some_api_key"
     /\ IsFinite(request.val.latitude)
     /\ IsFinite(request.val.longitude))
        => SixteenDecimals(CoordinateTexts(request.val.url))

\* Requests were built with small and large finite latitudes.
C14_TinyLatitudeBuilt ==
    /\ request.some
    /\ request.val.api_key = "some_api_key"
    /\ request.val.latitude = TENTH_MILLIONTH
    /\ request.val.longitude = LONG
    /\ CoordinateTexts(request.val.url)[1] = "0.0000001000000000"

\* The last path segment the builder's required fields stand for:
\* <lat>,<long>, and ,<time> for a time machine request.
CoordinateSegment(r) ==
    Format16(r.latitude) \o "," \o Format16(r.longitude)
    \o (IF kind = "time_machine" THEN "," \o FormatU64(r.time) ELSE "")

\* The path is /forecast/<one segment>/<coordinates>, the query has only the
\* four optional keys, and there is no fragment.
KeyIsOneSegment(r, segments, keys) ==
    /\ Len(segments) = 4
    /\ segments[1] = ""
    /\ segments[2] = "forecast"
    /\ segments[4] = CoordinateSegment(r)
    /\ \A i \in DOMAIN keys : keys[i] \in {EXCLUDE, EXTEND, LANG, UNITS}
    /\ ~r.url.fragment.some

\* C17: for every api_key the constructors take, the path of the built URL is
\* <base>/<api_key>/<lat>,<long>[,<time>] with the key as exactly one segment,
\* and the query holds only exclude, extend, lang and units: a "/", "?" or "#"
\* in the key adds no segment, no query content and no fragment.
C17_KeyIsOneSegment ==
    request.some
        => KeyIsOneSegment(request.val, SplitAny(request.val.url.path, {"/"}),
                           QueryKeys(request.val.url))

\* C17, the part the code keeps: a key of ASCII letters, digits and
\* underscores is exactly the one segment between the base and the
\* coordinates.
C17_PlainKeyIsOneSegment ==
    request.some /\ CharsOf(request.val.api_key) \subseteq (AsciiAlphanumeric \cup {"_"})
        => /\ KeyIsOneSegment(request.val, SplitAny(request.val.url.path, {"/"}),
                              QueryKeys(request.val.url))
           /\ SplitAny(request.val.url.path, {"/"})[3] = request.val.api_key

\* A request was built with the tests' key and a language.
C17_PlainKeyBuilt ==
    /\ request.some
    /\ request.val.api_key = "some_api_key"
    /\ request.val.lang # None
    /\ kind = "time_machine"

\* What the code builds from keys with "/", "?", "#" and "..": a second
\* segment, the rest of the path moved into the query or into the fragment,
\* the base's last segment removed.
C17_HostileKeysBuilt ==
    request.some /\ kind = "forecast" /\ request.val.lang = None
    /\ request.val.latitude = LAT /\ request.val.longitude = LONG
        => UrlAsStr(request.val.url) \in
              {"https://api.pirateweather.net/forecast/some_api_key/6.6600000000000001,66.5999999999999943?",
               "https://api.pirateweather.net/forecast/a/b/6.6600000000000001,66.5999999999999943?",
               "https://api.pirateweather.net/forecast/k?key=v/6.6600000000000001,66.5999999999999943",
               "https://api.pirateweather.net/forecast/k?#f/6.6600000000000001,66.5999999999999943",
               "https://api.pirateweather.net/6.6600000000000001,66.5999999999999943?"}

\* The request has no optional parameter: an empty exclude list and no
\* extend, lang or units.
NoParameters(r) ==
    /\ r.exclude = <<>>
    /\ (kind = "forecast" => r.extend = None)
    /\ r.lang = None
    /\ r.units = None

\* The URL the tests on defaults expect: "{base}/{key}/{lat:.16},{long:.16}?"
\* (with ",{time}" for a time machine request), parsed.
ExpectedDefaultUrl(r) ==
    UrlParse(FORECAST_URL \o "/" \o r.api_key \o "/" \o CoordinateSegment(r) \o "?")

\* C16: a request built without any parameter (no configuration call, or
\* only exclude_blocks calls with an empty collection) has a URL with an
\* empty query, not an absent one: its serialization ends with "?", and it is
\* the URL the tests on defaults expect.
C16_EmptyQueryKept ==
    Built /\ NoParameters(request.val)
        => /\ request.val.url.query = Some("")
           /\ UrlAsStr(request.val.url)
                 = FORECAST_URL \o "/" \o request.val.api_key \o "/"
                   \o CoordinateSegment(request.val) \o "?"
           /\ request.val.url = ExpectedDefaultUrl(request.val)

\* The time machine request of test_time_machine_request_builder_defaults.
C16_TimeMachineDefaultsBuilt ==
    /\ BuiltTimeMachine
    /\ lastCall = "new"
    /\ request.val.api_key = "some_api_key"
    /\ UrlAsStr(request.val.url)
          = "https://api.pirateweather.net/forecast/some_api_key/6.6600000000000001,66.5999999999999943,666?"

\* A builder call named `call` took the builder from b to c: c differs from b
\* in the call's own field only, and an exclude call only added blocks at the
\* end of the list.
OwnFieldOnly(b, c, call) ==
    /\ call \in {"exclude_block", "exclude_blocks", "extend", "lang", "units"}
    /\ call \in {"exclude_block", "exclude_blocks"}
          => /\ c = [b EXCEPT !.exclude = c.exclude]
             /\ Len(c.exclude) >= Len(b.exclude)
             /\ SubSeq(c.exclude, 1, Len(b.exclude)) = b.exclude
    /\ call = "extend" => c = [b EXCEPT !.extend = c.extend]
    /\ call = "lang" => c = [b EXCEPT !.lang = c.lang]
    /\ call = "units" => c = [b EXCEPT !.units = c.units]

\* On the forecast builder b, setters of different fields give the same
\* builder in either order.
ForecastSettersCommute(b) ==
    \A x \in BlockArgs, e \in ExtendArgs, l \in LangArgs, u \in UnitsArgs :
        /\ ForecastRequestBuilder_extend(ForecastRequestBuilder_exclude_block(b, x), e)
              = ForecastRequestBuilder_exclude_block(ForecastRequestBuilder_extend(b, e), x)
        /\ ForecastRequestBuilder_lang(ForecastRequestBuilder_exclude_block(b, x), l)
              = ForecastRequestBuilder_exclude_block(ForecastRequestBuilder_lang(b, l), x)
        /\ ForecastRequestBuilder_units(ForecastRequestBuilder_exclude_block(b, x), u)
              = ForecastRequestBuilder_exclude_block(ForecastRequestBuilder_units(b, u), x)
        /\ ForecastRequestBuilder_lang(ForecastRequestBuilder_extend(b, e), l)
              = ForecastRequestBuilder_extend(ForecastRequestBuilder_lang(b, l), e)
        /\ ForecastRequestBuilder_units(ForecastRequestBuilder_extend(b, e), u)
              = ForecastRequestBuilder_extend(ForecastRequestBuilder_units(b, u), e)
        /\ ForecastRequestBuilder_units(ForecastRequestBuilder_lang(b, l), u)
              = ForecastRequestBuilder_lang(ForecastRequestBuilder_units(b, u), l)
        /\ ForecastRequestBuilder_units(ForecastRequestBuilder_exclude_blocks(b, blocks).builder, u)
              = ForecastRequestBuilder_exclude_blocks(ForecastRequestBuilder_units(b, u), blocks).builder

\* The same on the time machine builder b.
TimeMachineSettersCommute(b) ==
    \A x \in BlockArgs, l \in LangArgs, u \in UnitsArgs :
        /\ TimeMachineRequestBuilder_lang(TimeMachineRequestBuilder_exclude_block(b, x), l)
              = TimeMachineRequestBuilder_exclude_block(TimeMachineRequestBuilder_lang(b, l), x)
        /\ TimeMachineRequestBuilder_units(TimeMachineRequestBuilder_exclude_block(b, x), u)
              = TimeMachineRequestBuilder_exclude_block(TimeMachineRequestBuilder_units(b, u), x)
        /\ TimeMachineRequestBuilder_units(TimeMachineRequestBuilder_lang(b, l), u)
              = TimeMachineRequestBuilder_lang(TimeMachineRequestBuilder_units(b, u), l)
        /\ TimeMachineRequestBuilder_units(TimeMachineRequestBuilder_exclude_blocks(b, blocks).builder, u)
              = TimeMachineRequestBuilder_exclude_blocks(TimeMachineRequestBuilder_units(b, u), blocks).builder

\* C18: a builder call changes its own field and nothing else: the exclude
\* calls only add to the end of the exclude list, extend, lang and units only
\* replace their own field, none touches api_key, latitude, longitude or time;
\* and setters of different fields commute.
C18_OwnFieldOnly ==
    [][builder.some /\ builder'.some
          => /\ builder' # builder => OwnFieldOnly(builder.val, builder'.val, lastCall')
             /\ IF kind = "forecast"
                THEN ForecastSettersCommute(builder.val)
                ELSE TimeMachineSettersCommute(builder.val)]_vars

\* units was called on a forecast builder whose other optional fields were
\* all set.
C18_UnitsCalledOnFullBuilder ==
    /\ builder.some
    /\ kind = "forecast"
    /\ lastCall = "units"
    /\ builder.val.exclude # <<>>
    /\ builder.val.extend # None
    /\ builder.val.lang # None
    /\ builder.val.units # None

====
